---- MODULE Spec2Model ----
(***************************************************************************)
(* Model of src/app.py: the /solve request handler (solve) and the text    *)
(* renderer (format_board) of the OCR Sudoku solver.                       *)
(*                                                                         *)
(* Four specifications share the module:                                   *)
(*   Spec       one /solve request, from the upload check to the response; *)
(*   ServerSpec the same handler serving a second request after the first; *)
(*   SegSpec    the 9x9 cell lattice cut from a rectified board W x H;     *)
(*   FmtSpec    format_board applied to a family of 9x9 grids.             *)
(* locate_puzzle, extract_digit, Sudoku and the classifier live outside    *)
(* src/app.py; the handler only sees their outcomes, which are drawn from  *)
(* the sets LocateOutcomes, ExtractOutcomes, PredictOutcomes and           *)
(* SolverOutcomes.                                                         *)
(***************************************************************************)
EXTENDS Integers, Sequences, FiniteSets, TLC

VARIABLES pc, tempFiles, y, x, board, cells, solved, puzzle, solverCalls,
          formatCalls, failure, response, prev,
          warped, rects, grid, text

vars == <<pc, tempFiles, y, x, board, cells, solved, puzzle, solverCalls,
          formatCalls, failure, response, prev,
          warped, rects, grid, text>>

reqVars == <<pc, tempFiles, y, x, board, cells, solved, puzzle, solverCalls,
             formatCalls, failure, response, prev>>
segVars == <<warped, rects>>
fmtVars == <<grid, text>>

\* Python's None where a text or an object is expected: like the empty text,
\* it is falsy in the template's {% if result %} and {% if error %}.
None == <<>>

\* The lattice is 9 x 9: range(9) in the loops of solve and format_board.
N == 9

\* The classifier has ten classes, 0..9 (argmax over its output).
NumClasses == 10

\* At most this many cells of one board carry a glyph.
MaxGlyphs == 1

Idx == 0 .. (N - 1)

----------------------------------------------------------------------------
(* Responses: render_template_string(HTML_TEMPLATE, result=..) or (error=..) *)

ResultResponse(r) == [result |-> r, error |-> None]
ErrorResponse(msg) == [result |-> None, error |-> msg]

NoImageMsg == <<"No image file provided">>
NoFileMsg == <<"No file selected">>
InvalidImageMsg == <<"Invalid image file">>
CouldNotSolveMsg ==
    <<"Could not solve the Sudoku puzzle. Please check if the puzzle is valid.">>

\* f'An error occurred: {str(e)}' ; an exception e is modelled by its text.
ExceptionResponse(e) == ErrorResponse(<<"An error occurred: ", e>>)

----------------------------------------------------------------------------
(* format_board: text is a sequence of one-character strings.              *)

DigitChars == <<"0", "1", "2", "3", "4", "5", "6", "7", "8", "9">>

\* str(n) of a non-negative integer: its decimal digits.
RECURSIVE Str(_)
Str(n) == IF n < 10 THEN <<DigitChars[n + 1]>>
          ELSE Str(n \div 10) \o <<DigitChars[(n % 10) + 1]>>

\* "+-----------------------+"
Border == <<"+">> \o [k \in 1 .. 23 |-> "-"] \o <<"+">>

\* Variant of the inner loop body that reads board[j][i].
CellTextTransposed(b, i, j) ==
    (IF j % 3 = 0 THEN <<"|", " ">> ELSE <<>>)
    \o (IF j = 8 THEN Str(b[j][i]) \o <<" ", "|", "\n">>
                 ELSE Str(b[j][i]) \o <<" ">>)

\* One pass of the inner loop (for j in range(9)) for cell (i, j).
CellText(b, i, j) ==
    (IF j % 3 = 0 THEN <<"|", " ">> ELSE <<>>)
    \o (IF j = 8 THEN Str(b[i][j]) \o <<" ", "|", "\n">>
                 ELSE Str(b[i][j]) \o <<" ">>)

RECURSIVE CellsFrom(_, _, _)
CellsFrom(b, i, j) ==
    IF j >= N THEN <<>> ELSE CellText(b, i, j) \o CellsFrom(b, i, j + 1)

\* Variant of the outer loop body without the test i != 0.
RowTextEveryBand(b, i) ==
    (IF i % 3 = 0 THEN Border \o <<"\n">> ELSE <<>>)
    \o CellsFrom(b, i, 0)

\* One pass of the outer loop (for i in range(9)).
RowText(b, i) ==
    (IF i % 3 = 0 /\ i # 0 THEN Border \o <<"\n">> ELSE <<>>)
    \o CellsFrom(b, i, 0)

RECURSIVE RowsFrom(_, _)
RowsFrom(b, i) ==
    IF i >= N THEN <<>> ELSE RowText(b, i) \o RowsFrom(b, i + 1)

format_board(b) == Border \o <<"\n">> \o RowsFrom(b, 0) \o Border

----------------------------------------------------------------------------
(* Outcomes of the calls the handler makes into code outside src/app.py.   *)

\* locate_puzzle returns (puzzleImage, warped) or raises.
LocateOutcomes == {"ok", "NoBoardFound", "DegenerateBoundary"}

\* extract_digit returns a glyph image, returns None, or raises.
NoGlyph == "None"
ExtractOutcomes == {"glyph", NoGlyph, "ExtractFailed"}

\* model.predict(...).argmax(axis=1)[0] is a class in 0..NumClasses-1, or
\* the classifier raises.  The classes tried are the two ends of the range.
Classes == 0 .. (NumClasses - 1)
PredictOutcomes == {"class", "ClassificationFailed"}
PredictedClasses == {0, NumClasses - 1}

\* Sudoku(board, 9, 9).solve(): a truthy return with puzzle.board solved,
\* a falsy return (no completion, or the search gave up), or an exception.
SolverOutcomes == {"Solved", "Unsatisfiable", "Timeout", "SolverError"}

\* The solved boards the solver may leave in puzzle.board: the cyclic
\* relabelings of one valid Sudoku solution that agree with the givens.
Solution(s) ==
    [i \in Idx |-> [j \in Idx |->
        ((3 * (i % 3) + (i \div 3) + j + s) % 9) + 1]]

Extends(sol, b) ==
    \A i \in Idx : \A j \in Idx : b[i][j] = 0 \/ b[i][j] = sol[i][j]

SolutionsOf(b) == {sol \in {Solution(s) : s \in Idx} : Extends(sol, b)}

\* The failure kinds of the error contract.
FailureKinds == {"NoBoardFound", "DegenerateBoundary", "Unsatisfiable",
                 "Timeout", "InvalidImage", "ClassificationFailed"}

----------------------------------------------------------------------------
(* The /solve handler, src/app.py lines 117-189.                           *)

ZeroBoard == [i \in Idx |-> [j \in Idx |-> 0]]

ReqIdle(p) ==
    /\ pc = p
    /\ tempFiles = 0
    /\ y = 0
    /\ x = 0
    /\ board = ZeroBoard
    /\ cells = <<>>
    /\ solved = "unbound"
    /\ puzzle = None
    /\ solverCalls = 0
    /\ formatCalls = 0
    /\ failure = "none"
    /\ response = [result |-> None, error |-> None]
    /\ prev = <<>>

SegIdle == warped = [h |-> 0, w |-> 0] /\ rects = <<>>
FmtIdle == grid = ZeroBoard /\ text = <<>>

Init == ReqIdle("start") /\ SegIdle /\ FmtIdle

loopVars == <<y, x, board, cells>>
solverVars == <<solved, puzzle, solverCalls, formatCalls>>

\* The finally clause: if os.path.exists(temp_path): os.unlink(temp_path).
Unlinked(n) == IF n > 0 THEN n - 1 ELSE n

\* An early return with an error before the temporary file exists.
Reject(kind, msg) ==
    /\ pc' = "done"
    /\ failure' = kind
    /\ response' = ErrorResponse(msg)

\* An exception e raised inside the inner try: the finally clause runs, then
\* the outer except builds the response.
Abort(e) ==
    /\ pc' = "done"
    /\ failure' = e
    /\ tempFiles' = Unlinked(tempFiles)
    /\ response' = ExceptionResponse(e)

\* Lines 121-126: the upload is missing, has an empty name, or is present.
Receive ==
    /\ pc = "start"
    /\ \E upload \in {"missing", "unnamed", "present"} :
         \/ upload = "missing" /\ Reject("NoImage", NoImageMsg)
         \/ upload = "unnamed" /\ Reject("NoFile", NoFileMsg)
         \/ /\ upload = "present"
            /\ pc' = "save"
            /\ UNCHANGED <<failure, response>>
    /\ UNCHANGED <<tempFiles, loopVars, solverVars, prev, segVars, fmtVars>>

\* Lines 129-131: NamedTemporaryFile(delete=False) creates the file, then
\* file.save writes the upload into it.  Either may raise; both are outside
\* the inner try, so only the outer except sees the exception.
SaveUpload ==
    /\ pc = "save"
    /\ \E outcome \in {"saved", "CreateFailed", "SaveFailed"} :
         \/ /\ outcome = "CreateFailed"
            /\ pc' = "done"
            /\ failure' = outcome
            /\ response' = ExceptionResponse(outcome)
            /\ UNCHANGED tempFiles
         \/ /\ outcome = "SaveFailed"
            /\ pc' = "done"
            /\ failure' = outcome
            /\ response' = ExceptionResponse(outcome)
            /\ tempFiles' = tempFiles + 1
         \/ /\ outcome = "saved"
            /\ pc' = "read"
            /\ tempFiles' = tempFiles + 1
            /\ UNCHANGED <<failure, response>>
    /\ UNCHANGED <<loopVars, solverVars, prev, segVars, fmtVars>>

\* Lines 135-137: cv2.imread returns None for an undecodable file; the
\* return inside the try still runs the finally clause.
ReadImage ==
    /\ pc = "read"
    /\ \E decoded \in BOOLEAN :
         IF decoded
         THEN /\ pc' = "locate"
              /\ UNCHANGED <<tempFiles, failure, response>>
         ELSE /\ Reject("InvalidImage", InvalidImageMsg)
              /\ tempFiles' = Unlinked(tempFiles)
    /\ UNCHANGED <<loopVars, solverVars, prev, segVars, fmtVars>>

\* Variant of lines 141-144 that swallows the exception of locate_puzzle and
\* goes on to the cells.
LocateSwallowing ==
    /\ pc = "locate"
    /\ \E outcome \in LocateOutcomes :
         /\ pc' = "cells"
         /\ board' = ZeroBoard
         /\ y' = 0
         /\ x' = 0
         /\ failure' = IF outcome = "ok" THEN failure ELSE outcome
         /\ UNCHANGED <<tempFiles, response>>
    /\ UNCHANGED <<cells, solverVars, prev, segVars, fmtVars>>

\* Lines 141-144: locate_puzzle, then board = np.zeros((9, 9)).
Locate ==
    /\ pc = "locate"
    /\ \E outcome \in LocateOutcomes :
         IF outcome = "ok"
         THEN /\ pc' = "cells"
              /\ board' = ZeroBoard
              /\ y' = 0
              /\ x' = 0
              /\ UNCHANGED <<tempFiles, failure, response>>
         ELSE /\ Abort(outcome)
              /\ UNCHANGED <<y, x, board>>
    /\ UNCHANGED <<cells, solverVars, prev, segVars, fmtVars>>

\* Variant of line 160 that classifies every cell, glyph or not.
ShouldClassifyAlways(digit) == TRUE

\* Line 160: if digit is not None.
ShouldClassify(digit) == digit # NoGlyph

\* Variant of line 169 with the indices swapped: board[x, y] = pred.
StoreDigitTransposed(b, yy, xx, pred) == [b EXCEPT ![xx][yy] = pred]

\* Line 169: board[y, x] = pred.
StoreDigit(b, yy, xx, pred) == [b EXCEPT ![yy][xx] = pred]

GlyphCount == Cardinality({k \in 1 .. Len(cells) : cells[k].extracted = "glyph"})

CellRecord(e, c, d) ==
    [row |-> y, col |-> x, extracted |-> e, classified |-> c, digit |-> d]

\* for y in range(9): for x in range(9): the next pair of the two loops.
NextCell ==
    /\ y' = IF x = N - 1 THEN y + 1 ELSE y
    /\ x' = IF x = N - 1 THEN 0 ELSE x + 1
    /\ pc' = IF y = N - 1 /\ x = N - 1 THEN "solve" ELSE "cells"

\* Lines 150-169: one pass of the loop body for cell (y, x).
ProcessCell ==
    /\ pc = "cells"
    /\ y < N
    /\ \E digit \in ExtractOutcomes :
         \/ /\ digit = "ExtractFailed"
            /\ cells' = Append(cells, CellRecord(digit, FALSE, -1))
            /\ Abort(digit)
            /\ UNCHANGED <<y, x, board>>
         \/ /\ digit # "ExtractFailed"
            /\ digit = "glyph" => GlyphCount < MaxGlyphs
            /\ IF ShouldClassify(digit)
               THEN \E outcome \in PredictOutcomes :
                      IF outcome = "class"
                      THEN \E pred \in PredictedClasses :
                             /\ board' = StoreDigit(board, y, x, pred)
                             /\ cells' = Append(cells, CellRecord(digit, TRUE, pred))
                             /\ NextCell
                             /\ UNCHANGED <<tempFiles, failure, response>>
                      ELSE /\ cells' = Append(cells, CellRecord(digit, TRUE, -1))
                           /\ Abort(outcome)
                           /\ UNCHANGED <<y, x, board>>
               ELSE /\ cells' = Append(cells, CellRecord(digit, FALSE, 0))
                    /\ NextCell
                    /\ UNCHANGED <<board, tempFiles, failure, response>>
    /\ UNCHANGED <<solverVars, prev, segVars, fmtVars>>

\* Variant of lines 175-181 that renders puzzle.board whatever solve() said.
SolveResponseUnchecked(ok, b) == ResultResponse(format_board(b))

\* Lines 175-181: the response for the solver's return value.
SolveResponse(ok, b) ==
    IF ~ok THEN ErrorResponse(CouldNotSolveMsg)
    ELSE ResultResponse(format_board(b))

\* Lines 172-181: Sudoku(board.tolist(), 9, 9), puzzle.solve(), response.
SolvePuzzle ==
    /\ pc = "solve"
    /\ solverCalls' = solverCalls + 1
    /\ \E outcome \in SolverOutcomes :
         \/ /\ outcome = "SolverError"
            /\ puzzle' = <<board>>
            /\ Abort(outcome)
            /\ UNCHANGED <<solved, formatCalls>>
         \/ /\ outcome \in {"Unsatisfiable", "Timeout"}
            /\ puzzle' = <<board>>
            /\ solved' = "False"
            /\ pc' = "done"
            /\ failure' = outcome
            /\ response' = SolveResponse(FALSE, puzzle'[1])
            /\ formatCalls' = IF response'.result # None
                              THEN formatCalls + 1 ELSE formatCalls
            /\ tempFiles' = Unlinked(tempFiles)
         \/ /\ outcome = "Solved"
            /\ \E sol \in SolutionsOf(board) : puzzle' = <<sol>>
            /\ solved' = "True"
            /\ pc' = "done"
            /\ failure' = "none"
            /\ response' = SolveResponse(TRUE, puzzle'[1])
            /\ formatCalls' = IF response'.result # None
                              THEN formatCalls + 1 ELSE formatCalls
            /\ tempFiles' = Unlinked(tempFiles)
    /\ UNCHANGED <<loopVars, prev, segVars, fmtVars>>

Next == Receive \/ SaveUpload \/ ReadImage \/ Locate \/ ProcessCell \/ SolvePuzzle

Spec == Init /\ [][Next]_vars

----------------------------------------------------------------------------
(* The server takes a second POST /solve once the first is answered.       *)

NewRequest ==
    /\ pc = "done"
    /\ prev = <<>>
    /\ prev' = <<[failure |-> failure, response |-> response]>>
    /\ pc' = "start"
    /\ y' = 0
    /\ x' = 0
    /\ board' = ZeroBoard
    /\ cells' = <<>>
    /\ solved' = "unbound"
    /\ puzzle' = None
    /\ solverCalls' = 0
    /\ formatCalls' = 0
    /\ failure' = "none"
    /\ response' = [result |-> None, error |-> None]
    /\ UNCHANGED <<tempFiles, segVars, fmtVars>>

ServerNext ==
    \/ Receive \/ SaveUpload \/ ReadImage \/ Locate \/ ProcessCell \/ SolvePuzzle
    \/ NewRequest

ServerSpec == Init /\ [][ServerNext]_vars

----------------------------------------------------------------------------
(* Cell segmentation, src/app.py lines 147-157, on a board of any size.    *)

\* Largest width and height of the rectified board.
MaxDim == 19

\* The indices a Python slice [a:b] selects on an axis of length len.
Slice(a, b, len) == {k \in 0 .. (len - 1) : a <= k /\ k < b}

\* Variant of lines 152-157 whose cells end one pixel late.
CellRectWide(yy, xx, stepX, stepY) ==
    [row |-> yy, col |-> xx,
     startX |-> xx * stepX, startY |-> yy * stepY,
     endX |-> (xx + 1) * stepX + 1, endY |-> (yy + 1) * stepY + 1]

\* Lines 152-157: the rectangle of cell (yy, xx).
CellRect(yy, xx, stepX, stepY) ==
    [row |-> yy, col |-> xx,
     startX |-> xx * stepX, startY |-> yy * stepY,
     endX |-> (xx + 1) * stepX, endY |-> (yy + 1) * stepY]

\* warped[startY:endY, startX:endX] as a set of pixels <<px, py>>.
PixelsOf(r) ==
    Slice(r.startX, r.endX, warped.w) \X Slice(r.startY, r.endY, warped.h)

SegInit ==
    /\ ReqIdle("segment")
    /\ warped \in [h : 1 .. MaxDim, w : 1 .. MaxDim]
    /\ rects = <<>>
    /\ FmtIdle

\* One pass of the loop body up to the slice of line 157.
CutCell ==
    /\ pc = "segment"
    /\ y < N
    /\ LET stepX == warped.w \div 9
           stepY == warped.h \div 9
       IN rects' = Append(rects, CellRect(y, x, stepX, stepY))
    /\ y' = IF x = N - 1 THEN y + 1 ELSE y
    /\ x' = IF x = N - 1 THEN 0 ELSE x + 1
    /\ pc' = IF y = N - 1 /\ x = N - 1 THEN "segmented" ELSE "segment"
    /\ UNCHANGED <<tempFiles, board, cells, solverVars, failure, response,
                   prev, warped, fmtVars>>

SegNext == CutCell

SegSpec == SegInit /\ [][SegNext]_vars

----------------------------------------------------------------------------
(* format_board, src/app.py lines 191-205, on a family of 9x9 grids.       *)

\* Grids (a*i + b*j + c) mod 10, and a solved grid with one cell replaced.
LinearGrids ==
    {[i \in Idx |-> [j \in Idx |-> (a * i + b * j + c) % NumClasses]] :
        a \in Classes, b \in Classes, c \in Classes}

EditedGrids ==
    {[Solution(0) EXCEPT ![i][j] = d] : i \in Idx, j \in Idx, d \in Classes}

GridInputs == LinearGrids \cup EditedGrids

FmtInit ==
    /\ ReqIdle("format")
    /\ SegIdle
    /\ grid \in GridInputs
    /\ text = <<>>

Render ==
    /\ pc = "format"
    /\ text' = format_board(grid)
    /\ pc' = "formatted"
    /\ UNCHANGED <<tempFiles, loopVars, solverVars, failure, response, prev,
                   segVars, grid>>

FmtNext == Render

FmtSpec == FmtInit /\ [][FmtNext]_vars

----------------------------------------------------------------------------
(* Properties of the /solve handler (Spec, ServerSpec).                    *)

Handed == pc = "solve" \/ solverCalls > 0

ClassifyFailedAt(k) == cells[k].classified /\ cells[k].digit = -1

\* C1: the solver is invoked at most once per request, a rendered grid is
\* returned only if that single puzzle.solve() call reported success, and
\* when it reports failure the response carries an error, no result grid,
\* and format_board was never called.
C1_SolverOnceResultOnlyOnSuccess ==
    /\ solverCalls <= 1
    /\ response.result # None => solved = "True" /\ solverCalls = 1
    /\ solved = "False" =>
         /\ pc = "done"
         /\ response.error # None
         /\ response.result = None
         /\ formatCalls = 0

C1_Witness ==
    /\ pc = "done"
    /\ solverCalls = 1
    /\ solved = "False"
    /\ response = ErrorResponse(CouldNotSolveMsg)

\* C2: when locate_puzzle fails the pipeline aborts at once: no cell is
\* segmented, the classifier and the solver are never invoked, and the
\* request ends with an error response and no result grid.
C2_LocateFailureAborts ==
    failure \in {"NoBoardFound", "DegenerateBoundary"} =>
        /\ pc = "done"
        /\ cells = <<>>
        /\ solverCalls = 0
        /\ formatCalls = 0
        /\ response.error # None
        /\ response.result = None

C2_Witness ==
    /\ pc = "done"
    /\ failure = "NoBoardFound"
    /\ response = ExceptionResponse("NoBoardFound")
    /\ tempFiles = 0

\* C3: when the classifier raises on one cell, that cell is treated as blank
\* (digit 0), the remaining cells are still processed and the solver is
\* still invoked on the resulting grid; the request is not aborted.
C3_FailedCellIsBlank ==
    \A k \in 1 .. Len(cells) :
        ClassifyFailedAt(k) =>
            /\ failure # "ClassificationFailed"
            /\ board[cells[k].row][cells[k].col] = 0
            /\ pc = "done" => Len(cells) = N * N /\ solverCalls = 1

\* C4: for every cell the classifier is invoked if and only if extract_digit
\* returned a glyph; a cell for which extract_digit returned None has grid
\* entry 0 when the grid is handed to the solver.
C4_ClassifiedIffGlyph ==
    /\ \A k \in 1 .. Len(cells) :
         cells[k].classified <=> (cells[k].extracted = "glyph")
    /\ Handed =>
         /\ Len(cells) = N * N
         /\ \A k \in 1 .. Len(cells) :
              cells[k].extracted = NoGlyph =>
                  board[cells[k].row][cells[k].col] = 0

C4_Witness ==
    /\ pc = "solve"
    /\ \E k \in 1 .. Len(cells) :
         cells[k].extracted = "glyph" /\ cells[k].classified
    /\ \E k \in 1 .. Len(cells) :
         cells[k].extracted = NoGlyph /\ ~cells[k].classified

\* C5: the grid handed to the solver is 9x9, its entry (y, x) is the digit
\* obtained for the cell at row y, column x (the k-th cell in row-major
\* order lands at (k div 9, k mod 9)), and every entry is in 0..9.
C5_GridIsRowMajor ==
    Handed =>
        /\ DOMAIN board = Idx
        /\ \A i \in Idx : DOMAIN board[i] = Idx
        /\ Len(cells) = N * N
        /\ \A k \in 0 .. (N * N - 1) :
             /\ cells[k + 1].row = k \div N
             /\ cells[k + 1].col = k % N
             /\ board[k \div N][k % N] = cells[k + 1].digit
        /\ \A i \in Idx : \A j \in Idx : board[i][j] \in 0 .. 9

C5_Witness ==
    /\ pc = "solve"
    /\ \E k \in 1 .. Len(cells) :
         /\ cells[k].digit = NumClasses - 1
         /\ cells[k].row # cells[k].col
         /\ board[cells[k].row][cells[k].col] = NumClasses - 1

\* C9: every failure kind yields an error response and no result, and two
\* requests that fail with different kinds get different responses.
C9_FailureKindsDistinguishable ==
    /\ (pc = "done" /\ failure \in FailureKinds) =>
           response.result = None /\ response.error # None
    /\ (/\ pc = "done"
        /\ prev # <<>>
        /\ failure \in FailureKinds
        /\ prev[1].failure \in FailureKinds
        /\ failure # prev[1].failure) => response # prev[1].response

\* C10: every temporary file a request created is deleted by the time its
\* response is returned, on every path.
C10_NoTempFileLeft == pc = "done" => tempFiles = 0

----------------------------------------------------------------------------
(* Properties of the cell lattice (SegSpec).                               *)

BoardPixels == (0 .. (warped.w - 1)) \X (0 .. (warped.h - 1))

CellsHolding(p) == {k \in 1 .. Len(rects) : p \in PixelsOf(rects[k])}

Disjoint ==
    \A a \in 1 .. Len(rects) : \A b \in 1 .. Len(rects) :
        a # b => PixelsOf(rects[a]) \cap PixelsOf(rects[b]) = {}

InsideBoard ==
    \A k \in 1 .. Len(rects) :
        /\ 0 <= rects[k].startX /\ rects[k].startX <= rects[k].endX
        /\ rects[k].endX <= warped.w
        /\ 0 <= rects[k].startY /\ rects[k].startY <= rects[k].endY
        /\ rects[k].endY <= warped.h

\* C6 (as stated): the 81 cell rectangles partition the board: pairwise
\* non-overlapping, inside the board, and every pixel of the board, the
\* leftover W mod 9 columns and H mod 9 rows included, is in exactly one.
C6_CellsPartitionBoard ==
    pc = "segmented" =>
        /\ Len(rects) = N * N
        /\ Disjoint
        /\ InsideBoard
        /\ \A p \in BoardPixels : Cardinality(CellsHolding(p)) = 1

\* C6 (amended): the 81 cell rectangles are pairwise non-overlapping and
\* inside the board; a pixel is in exactly one cell when its column is below
\* 9 * (W div 9) and its row below 9 * (H div 9), and in no cell otherwise:
\* the leftover W mod 9 columns and H mod 9 rows are dropped.
C6_CellsPartitionCoveredPart ==
    pc = "segmented" =>
        /\ Len(rects) = N * N
        /\ Disjoint
        /\ InsideBoard
        /\ \A p \in BoardPixels :
             Cardinality(CellsHolding(p)) =
                 IF /\ p[1] < 9 * (warped.w \div 9)
                    /\ p[2] < 9 * (warped.h \div 9)
                 THEN 1 ELSE 0

C6_Witness ==
    /\ pc = "segmented"
    /\ warped.w % 9 # 0
    /\ warped.h \div 9 = 2
    /\ \E p \in BoardPixels : CellsHolding(p) = {}
    /\ \E p \in BoardPixels : CellsHolding(p) = {N * N}

----------------------------------------------------------------------------
(* Properties of format_board (FmtSpec).                                   *)

HasNewline(t) == \E k \in 1 .. Len(t) : t[k] = "\n"

FirstNewline(t) ==
    CHOOSE k \in 1 .. Len(t) :
        t[k] = "\n" /\ \A m \in 1 .. (k - 1) : t[m] # "\n"

\* The text split at its newlines.
RECURSIVE Lines(_)
Lines(t) ==
    IF ~HasNewline(t) THEN <<t>>
    ELSE LET k == FirstNewline(t)
         IN <<SubSeq(t, 1, k - 1)>> \o Lines(SubSeq(t, k + 1, Len(t)))

\* A horizontal line: made of '+' and '-' only.
IsRule(l) == l # <<>> /\ \A k \in 1 .. Len(l) : l[k] \in {"+", "-"}

Rules(L) == {n \in 1 .. Len(L) : IsRule(L[n])}

\* '| a b c | d e f | g h i |' for the nine digits of row r.
Band(r, j) ==
    <<"|", " ", DigitChars[r[j] + 1], " ", DigitChars[r[j + 1] + 1], " ",
      DigitChars[r[j + 2] + 1], " ">>

RowForm(r) == Band(r, 0) \o Band(r, 3) \o Band(r, 6) \o <<"|">>

DigitRowsInForm(L) ==
    LET rows == SelectSeq(L, LAMBDA l : ~IsRule(l))
    IN /\ Len(rows) = N
       /\ \A i \in Idx : rows[i + 1] = RowForm(grid[i])

SameWidth(L) == \A n \in 1 .. Len(L) : Len(L[n]) = Len(L[1])

\* C7 (as stated): the text has three horizontal separator lines dividing
\* the 3x3 box bands, nine digit rows '| a b c | d e f | g h i |', and all
\* lines have the same width.
C7_ThreeSeparators ==
    pc = "formatted" =>
        LET L == Lines(text)
        IN /\ Cardinality(Rules(L)) = 3
           /\ DigitRowsInForm(L)
           /\ SameWidth(L)

\* C7 (amended): the text has four horizontal lines, a top border, a bottom
\* border and two separators between the three bands of digit rows, nine
\* digit rows '| a b c | d e f | g h i |', and all lines have the same width.
C7_BorderedBlock ==
    pc = "formatted" =>
        LET L == Lines(text)
        IN /\ Len(L) = 13
           /\ Rules(L) = {1, 5, 9, 13}
           /\ \A n \in Rules(L) : L[n] = Border
           /\ DigitRowsInForm(L)
           /\ SameWidth(L)

C7_Witness ==
    /\ pc = "formatted"
    /\ grid = Solution(0)
    /\ Lines(text)[2] =
         <<"|", " ", "1", " ", "2", " ", "3", " ", "|", " ", "4", " ", "5",
           " ", "6", " ", "|", " ", "7", " ", "8", " ", "9", " ", "|">>
    /\ Lines(text)[5] = Border

\* Reading a rendered text back: border lines dropped, '|' and ' ' dropped,
\* the remaining characters of each line read as digits.
DigitOf(c) == (CHOOSE d \in 1 .. Len(DigitChars) : DigitChars[d] = c) - 1

IsDigitChar(c) == \E d \in 1 .. Len(DigitChars) : DigitChars[d] = c

DataLines(t) ==
    SelectSeq(Lines(t), LAMBDA l : l = <<>> \/ l[1] # "+")

Stripped(l) == SelectSeq(l, LAMBDA c : c \notin {"|", " "})

Readable(t) ==
    /\ Len(DataLines(t)) = N
    /\ \A n \in 1 .. N :
         LET cs == Stripped(DataLines(t)[n])
         IN Len(cs) = N /\ \A k \in 1 .. N : IsDigitChar(cs[k])

ParseGrid(t) ==
    [i \in Idx |-> [j \in Idx |-> DigitOf(Stripped(DataLines(t)[i + 1])[j + 1])]]

\* C8: for every 9x9 grid g with entries in 0..9, reading format_board(g)
\* back gives exactly g.
C8_RenderRoundTrips ==
    pc = "formatted" => Readable(text) /\ ParseGrid(text) = grid

C8_Witness ==
    /\ pc = "formatted"
    /\ grid[0][1] # grid[1][0]
    /\ \E i \in Idx : \E j \in Idx : grid[i][j] = 0
    /\ ParseGrid(text) = grid

====
